---- MODULE Spec2Model ----
(***************************************************************************)
(* Order detail page (src/app/orders/[id]/page.tsx, OrderConfirmationPage).*)
(* The component's React state, the asynchronous handlers that suspend at  *)
(* each awaited service call, and the values derived at render time.       *)
(*                                                                         *)
(* One action is one run-to-suspension of a handler: JavaScript runs the   *)
(* code between two awaits without interleaving, and React commits the     *)
(* batched state updates of that run in a single re-render, so every       *)
(* action ends by recomputing the rendered view.                           *)
(*                                                                         *)
(* Instants are counted in seconds, so the day divisor 1000*60*60*24 ms of *)
(* the source is 60*60*24 here: the day arithmetic is the same and 31 days *)
(* of seconds stay within 32-bit integers.                                 *)
(***************************************************************************)
EXTENDS Integers, Sequences, FiniteSets, Bags

VARIABLES
    orderId,             \* params["id"]
    order,               \* useState<IOrder | null>(null)
    tracking,            \* useState<ITrackingHistoryItem[]>([])
    loading,             \* useState(true)
    error,               \* useState("")
    ratingModalOpen,     \* useState(false)
    ratingProductId,     \* useState<string | null>(null)
    isSubmittingReview,  \* useState(false)
    mounted,             \* the mount effect has run
    calls,               \* bag of service calls in flight, each with the handler awaiting it
    now,                 \* wall clock
    view,                \* what the last render returned
    trackingFor,         \* the order identifier the tracking list was fetched for
    ev                   \* the step that produced this state, with the response it consumed

vars == <<orderId, order, tracking, loading, error, ratingModalOpen, ratingProductId,
          isSubmittingReview, mounted, calls, now, view, trackingFor, ev>>

----------------------------------------------------------------------------
(* Bounds *)

MaxCalls == 2
MaxTrack == 2

----------------------------------------------------------------------------
(* Values *)

NoId == ""
NoTime == -1
NoOrder == [id |-> NoId, status |-> "", paymentStatus |-> "", deliveredAt |-> NoTime]
NoEnvelope == [status |-> "", hasHistory |-> FALSE, history |-> <<>>]

Day == 60 * 60 * 24

OrderIds == {"o1", "o2"}
ProductIds == {"p1", NoId}

\* Responses the order service hands out while the page runs
ServedStatuses == {"PENDING", "DELIVERED", "CANCELLED"}
ServedOrders(id) ==
    [id : {id}, status : ServedStatuses, paymentStatus : {"PAID"}, deliveredAt : {NoTime}]
ServedHistories == {<<>>, <<[status |-> "DELIVERED", createdAt |-> Day]>>}
ServedEnvelopes ==
    [status : {"success"}, hasHistory : {TRUE}, history : ServedHistories]
      \cup {[status |-> "success", hasHistory |-> FALSE, history |-> <<>>],
            [status |-> "error", hasHistory |-> TRUE,
             history |-> <<[status |-> "DELIVERED", createdAt |-> Day]>>]}

\* Inputs of the render derivations
Statuses == {"PENDING", "CONFIRMED", "PROCESSING", "SHIPPED", "DELIVERED", "CANCELLED", "REFUNDED"}
PaymentStatuses == {"PAID", "PENDING", "FAILED"}
DeliveredInstants == {0, 1, Day, 31 * Day, 33 * Day}
NowInstants == {31 * Day, 31 * Day + 1, 32 * Day}
TrackStatuses == {"SHIPPED", "DELIVERED"}
TrackInstants == {0, 1, Day, 33 * Day}
TrackItems == [status : TrackStatuses, createdAt : TrackInstants]
SeqsUpTo(S, n) == UNION {[1..k -> S] : k \in 0..n}

----------------------------------------------------------------------------
(* Render: lines 135-169 and the conditional buttons of the detail view *)

\* variant of find: takes the last DELIVERED entry instead of the first
find_last(t) ==
    IF \E i \in 1..Len(t) : t[i].status = "DELIVERED"
    THEN LET i == CHOOSE j \in 1..Len(t) :
                      /\ t[j].status = "DELIVERED"
                      /\ \A k \in (j + 1)..Len(t) : t[k].status # "DELIVERED"
         IN  <<t[i]>>
    ELSE <<>>

\* tracking.find(t => t.status === 'DELIVERED')
find(t) ==
    IF \E i \in 1..Len(t) : t[i].status = "DELIVERED"
    THEN LET i == CHOOSE j \in 1..Len(t) :
                      /\ t[j].status = "DELIVERED"
                      /\ \A k \in 1..(j - 1) : t[k].status # "DELIVERED"
         IN  <<t[i]>>
    ELSE <<>>

\* variant of deliveredAt: consults the tracking list before order.deliveredAt
deliveredAt_trackingFirst(o, t) ==
    IF find(t) # <<>> THEN find(t)[1].createdAt
    ELSE IF o.deliveredAt # NoTime THEN o.deliveredAt
    ELSE NoTime

\* order.deliveredAt || tracking.find(...)?.createdAt || null
deliveredAt(o, t) ==
    IF o.deliveredAt # NoTime THEN o.deliveredAt
    ELSE IF find(t) # <<>> THEN find(t)[1].createdAt
    ELSE NoTime

\* Math.floor((today.getTime() - deliveredDate.getTime()) / (1000 * 60 * 60 * 24))
diffDays(d, today) == (today - d) \div Day

\* variant of isReturnEligible: diffDays < 30
isReturnEligible_strict(d, today) ==
    IF d # NoTime THEN diffDays(d, today) < 30 ELSE FALSE

\* deliveredDate ? diffDays !== null && diffDays <= 30 : false
isReturnEligible(d, today) ==
    IF d # NoTime THEN diffDays(d, today) <= 30 ELSE FALSE

\* variant of getStatusVariant: the SHIPPED case is missing
getStatusVariant_noShipped(status) ==
    CASE status = "PENDING" -> "outline"
      [] status = "CONFIRMED" -> "secondary"
      [] status = "PROCESSING" -> "secondary"
      [] status = "DELIVERED" -> "default"
      [] OTHER -> "destructive"

\* lines 107-122
getStatusVariant(status) ==
    CASE status = "PENDING" -> "outline"
      [] status = "CONFIRMED" -> "secondary"
      [] status = "PROCESSING" -> "secondary"
      [] status = "SHIPPED" -> "default"
      [] status = "DELIVERED" -> "default"
      [] OTHER -> "destructive"

\* lines 124-133
getPaymentStatusVariant(status) ==
    CASE status = "PAID" -> "default"
      [] status = "PENDING" -> "outline"
      [] OTHER -> "destructive"

NotRendered == [screen |-> "", message |-> "", deliveredAt |-> NoTime, today |-> NoTime,
                isReturnEligible |-> FALSE, cancelOffered |-> FALSE, rateOffered |-> FALSE,
                statusVariant |-> "", paymentVariant |-> ""]

\* variant of Render: the Cancel Order button is rendered for every status
Render_cancelAnyStatus(o, t, ld, er, today) ==
    IF ld THEN [NotRendered EXCEPT !.screen = "loading"]
    ELSE IF er # "" \/ o = NoOrder
    THEN [NotRendered EXCEPT
            !.screen = "error",
            !.message = IF er # "" THEN er
                        ELSE "The order you're looking for doesn't exist."]
    ELSE [screen |-> "detail", message |-> "",
          deliveredAt |-> deliveredAt(o, t), today |-> today,
          isReturnEligible |-> isReturnEligible(deliveredAt(o, t), today),
          cancelOffered |-> TRUE,
          rateOffered |-> (o.status = "DELIVERED"),
          statusVariant |-> getStatusVariant(o.status),
          paymentVariant |-> getPaymentStatusVariant(o.paymentStatus)]

Render(o, t, ld, er, today) ==
    IF ld THEN [NotRendered EXCEPT !.screen = "loading"]
    ELSE IF er # "" \/ o = NoOrder
    THEN [NotRendered EXCEPT
            !.screen = "error",
            !.message = IF er # "" THEN er
                        ELSE "The order you're looking for doesn't exist."]
    ELSE [screen |-> "detail", message |-> "",
          deliveredAt |-> deliveredAt(o, t), today |-> today,
          isReturnEligible |-> isReturnEligible(deliveredAt(o, t), today),
          cancelOffered |-> (o.status = "PENDING"),
          rateOffered |-> (o.status = "DELIVERED"),
          statusVariant |-> getStatusVariant(o.status),
          paymentVariant |-> getPaymentStatusVariant(o.paymentStatus)]

\* the re-render React commits after the state updates of a step
Rerender == view' = Render(order', tracking', loading', error', now')

----------------------------------------------------------------------------
(* Calls in flight *)

Call(chain, svc, arg, reloadId) ==
    [chain |-> chain, svc |-> svc, arg |-> arg, reloadId |-> reloadId]

InFlight == BagToSet(calls)
Room == BagCardinality(calls) < MaxCalls
Issue(c) == calls (+) SetToBag({c})
Settle(c) == calls (-) SetToBag({c})
\* number of requests to a service operation that have not settled yet
Pending(svc) == BagCardinality([c \in {x \in InFlight : x.svc = svc} |-> calls[c]])
\* those among them that a given handler is awaiting
PendingIn(chain, svc) ==
    BagCardinality([c \in {x \in InFlight : x.svc = svc /\ x.chain = chain} |-> calls[c]])

Event(op, o, env) == [op |-> op, order |-> o, env |-> env]

----------------------------------------------------------------------------
(* Initial state: the useState initialisers, before the mount effect *)

Init ==
    /\ orderId \in OrderIds
    /\ order = NoOrder
    /\ tracking = <<>>
    /\ loading = TRUE
    /\ error = ""
    /\ ratingModalOpen = FALSE
    /\ ratingProductId = NoId
    /\ isSubmittingReview = FALSE
    /\ mounted = FALSE
    /\ calls = EmptyBag
    /\ now = 31 * Day
    /\ view = Render(NoOrder, <<>>, TRUE, "", 31 * Day)
    /\ trackingFor = NoId
    /\ ev = Event("init", NoOrder, NoEnvelope)

----------------------------------------------------------------------------
(* useEffect, lines 63-67: if (orderId) loadOrder() *)

\* loadOrder up to its await: setLoading(true); orderService.getOrder(orderId)
effect(id) ==
    IF id # NoId
    THEN /\ loading' = TRUE
         /\ calls' = Issue(Call("loadOrder", "getOrder", id, NoId))
    ELSE UNCHANGED <<loading, calls>>

MountEffect ==
    /\ ~mounted
    /\ mounted' = TRUE
    /\ effect(orderId)
    /\ ev' = Event("mount", NoOrder, NoEnvelope)
    /\ UNCHANGED <<orderId, order, tracking, error, ratingModalOpen, ratingProductId,
                   isSubmittingReview, now>>
    /\ UNCHANGED trackingFor
    /\ Rerender

\* the route parameter changes; the effect's dependency [orderId, loadOrder] re-runs it
RouteChange(id) ==
    /\ mounted
    /\ Room
    /\ id # orderId
    /\ orderId' = id
    /\ effect(id)
    /\ ev' = Event("route", NoOrder, NoEnvelope)
    /\ UNCHANGED <<order, tracking, error, ratingModalOpen, ratingProductId,
                   isSubmittingReview, mounted, now>>
    /\ UNCHANGED trackingFor
    /\ Rerender

----------------------------------------------------------------------------
(* loadOrder, lines 39-50, after its await *)

\* variant of LoadOrderOk: a response for another identifier than the current one is dropped
LoadOrderOk_fenced(c, o) ==
    /\ c \in InFlight
    /\ c.chain = "loadOrder" /\ c.svc = "getOrder"
    /\ o \in ServedOrders(c.arg)
    /\ order' = IF c.arg = orderId THEN o ELSE order
    /\ loading' = FALSE
    /\ calls' = Settle(c)
    /\ ev' = Event("loadOrderOk", o, NoEnvelope)
    /\ UNCHANGED <<orderId, tracking, error, ratingModalOpen, ratingProductId,
                   isSubmittingReview, mounted, now>>
    /\ UNCHANGED trackingFor
    /\ Rerender

\* variant of LoadOrderOk: a successful load also clears the error message
LoadOrderOk_clearsError(c, o) ==
    /\ c \in InFlight
    /\ c.chain = "loadOrder" /\ c.svc = "getOrder"
    /\ o \in ServedOrders(c.arg)
    /\ order' = o
    /\ error' = ""
    /\ loading' = FALSE
    /\ calls' = Settle(c)
    /\ ev' = Event("loadOrderOk", o, NoEnvelope)
    /\ UNCHANGED <<orderId, tracking, ratingModalOpen, ratingProductId,
                   isSubmittingReview, mounted, now>>
    /\ UNCHANGED trackingFor
    /\ Rerender

\* try: setOrder(response.data.data); finally: setLoading(false)
LoadOrderOk(c, o) ==
    /\ c \in InFlight
    /\ c.chain = "loadOrder" /\ c.svc = "getOrder"
    /\ o \in ServedOrders(c.arg)
    /\ order' = o
    /\ loading' = FALSE
    /\ calls' = Settle(c)
    /\ ev' = Event("loadOrderOk", o, NoEnvelope)
    /\ UNCHANGED <<orderId, tracking, error, ratingModalOpen, ratingProductId,
                   isSubmittingReview, mounted, now>>
    /\ UNCHANGED trackingFor
    /\ Rerender

\* variant of LoadOrderFail: no finally, the loading flag is not reset after a failure
LoadOrderFail_noFinally(c) ==
    /\ c \in InFlight
    /\ c.chain = "loadOrder" /\ c.svc = "getOrder"
    /\ error' = "Failed to load order details"
    /\ calls' = Settle(c)
    /\ ev' = Event("loadOrderFail", NoOrder, NoEnvelope)
    /\ UNCHANGED <<orderId, order, tracking, loading, ratingModalOpen, ratingProductId,
                   isSubmittingReview, mounted, now>>
    /\ UNCHANGED trackingFor
    /\ Rerender

\* variant of LoadOrderFail: the catch also drops the loaded order
LoadOrderFail_dropsOrder(c) ==
    /\ c \in InFlight
    /\ c.chain = "loadOrder" /\ c.svc = "getOrder"
    /\ order' = NoOrder
    /\ error' = "Failed to load order details"
    /\ loading' = FALSE
    /\ calls' = Settle(c)
    /\ ev' = Event("loadOrderFail", NoOrder, NoEnvelope)
    /\ UNCHANGED <<orderId, tracking, ratingModalOpen, ratingProductId,
                   isSubmittingReview, mounted, now>>
    /\ UNCHANGED trackingFor
    /\ Rerender

\* catch: setError("Failed to load order details"); finally: setLoading(false)
LoadOrderFail(c) ==
    /\ c \in InFlight
    /\ c.chain = "loadOrder" /\ c.svc = "getOrder"
    /\ error' = "Failed to load order details"
    /\ loading' = FALSE
    /\ calls' = Settle(c)
    /\ ev' = Event("loadOrderFail", NoOrder, NoEnvelope)
    /\ UNCHANGED <<orderId, order, tracking, ratingModalOpen, ratingProductId,
                   isSubmittingReview, mounted, now>>
    /\ UNCHANGED trackingFor
    /\ Rerender

----------------------------------------------------------------------------
(* handleCancelOrder, lines 69-83 *)

\* if (!order) return; setLoading(true); orderService.cancelOrder(order.id)
\* The handler closes over the order, orderId and loadOrder of the render it was created in.
handleCancelOrder ==
    IF order = NoOrder
    THEN UNCHANGED <<loading, calls>>
    ELSE /\ loading' = TRUE
         /\ calls' = Issue(Call("cancel", "cancelOrder", order.id, orderId))

\* the Cancel Order button, lines 359-368
ClickCancelOrder ==
    /\ view.screen = "detail"
    /\ view.cancelOffered
    /\ ~loading
    /\ Room
    /\ handleCancelOrder
    /\ ev' = Event("clickCancel", NoOrder, NoEnvelope)
    /\ UNCHANGED <<orderId, order, tracking, error, ratingModalOpen, ratingProductId,
                   isSubmittingReview, mounted, now>>
    /\ UNCHANGED trackingFor
    /\ Rerender

\* variant of CancelOk: no reload after the cancel
CancelOk_noReload(c) ==
    /\ c \in InFlight
    /\ c.chain = "cancel" /\ c.svc = "cancelOrder"
    /\ loading' = FALSE
    /\ calls' = Settle(c)
    /\ ev' = Event("cancelOk", NoOrder, NoEnvelope)
    /\ UNCHANGED <<orderId, order, tracking, error, ratingModalOpen, ratingProductId,
                   isSubmittingReview, mounted, now>>
    /\ UNCHANGED trackingFor
    /\ Rerender

\* cancelOrder resolved: await loadOrder() runs loadOrder up to its await
CancelOk(c) ==
    /\ c \in InFlight
    /\ c.chain = "cancel" /\ c.svc = "cancelOrder"
    /\ loading' = TRUE
    /\ calls' = Settle(c) (+) SetToBag({Call("cancel", "getOrder", c.reloadId, NoId)})
    /\ ev' = Event("cancelOk", NoOrder, NoEnvelope)
    /\ UNCHANGED <<orderId, order, tracking, error, ratingModalOpen, ratingProductId,
                   isSubmittingReview, mounted, now>>
    /\ UNCHANGED trackingFor
    /\ Rerender

\* variant of CancelFail: the reload is issued although the cancel threw
CancelFail_reloads(c) ==
    /\ c \in InFlight
    /\ c.chain = "cancel" /\ c.svc = "cancelOrder"
    /\ error' = "Failed to cancel order"
    /\ loading' = TRUE
    /\ calls' = Settle(c) (+) SetToBag({Call("cancel", "getOrder", c.reloadId, NoId)})
    /\ ev' = Event("cancelFail", NoOrder, NoEnvelope)
    /\ UNCHANGED <<orderId, order, tracking, ratingModalOpen, ratingProductId,
                   isSubmittingReview, mounted, now>>
    /\ UNCHANGED trackingFor
    /\ Rerender

\* cancelOrder rejected: catch: setError("Failed to cancel order"); finally: setLoading(false)
CancelFail(c) ==
    /\ c \in InFlight
    /\ c.chain = "cancel" /\ c.svc = "cancelOrder"
    /\ error' = "Failed to cancel order"
    /\ loading' = FALSE
    /\ calls' = Settle(c)
    /\ ev' = Event("cancelFail", NoOrder, NoEnvelope)
    /\ UNCHANGED <<orderId, order, tracking, ratingModalOpen, ratingProductId,
                   isSubmittingReview, mounted, now>>
    /\ UNCHANGED trackingFor
    /\ Rerender

\* the awaited loadOrder resolved its getOrder: loadOrder's try and finally, then
\* handleCancelOrder's finally, all in one run
ReloadOk(c, o) ==
    /\ c \in InFlight
    /\ c.chain = "cancel" /\ c.svc = "getOrder"
    /\ o \in ServedOrders(c.arg)
    /\ order' = o
    /\ loading' = FALSE
    /\ calls' = Settle(c)
    /\ ev' = Event("reloadOk", o, NoEnvelope)
    /\ UNCHANGED <<orderId, tracking, error, ratingModalOpen, ratingProductId,
                   isSubmittingReview, mounted, now>>
    /\ UNCHANGED trackingFor
    /\ Rerender

\* the awaited loadOrder caught its getOrder failure (it never rethrows), then
\* handleCancelOrder's finally
ReloadFail(c) ==
    /\ c \in InFlight
    /\ c.chain = "cancel" /\ c.svc = "getOrder"
    /\ error' = "Failed to load order details"
    /\ loading' = FALSE
    /\ calls' = Settle(c)
    /\ ev' = Event("reloadFail", NoOrder, NoEnvelope)
    /\ UNCHANGED <<orderId, order, tracking, ratingModalOpen, ratingProductId,
                   isSubmittingReview, mounted, now>>
    /\ UNCHANGED trackingFor
    /\ Rerender

----------------------------------------------------------------------------
(* loadTracking, lines 52-61, and handleTrackOrder, lines 85-87 *)

\* the Refresh Tracking button, lines 356-358: orderService.trackOrder(orderId)
handleTrackOrder ==
    /\ view.screen = "detail"
    /\ Room
    /\ calls' = Issue(Call("track", "trackOrder", orderId, NoId))
    /\ ev' = Event("clickTrack", NoOrder, NoEnvelope)
    /\ UNCHANGED <<orderId, order, tracking, loading, error, ratingModalOpen,
                   ratingProductId, isSubmittingReview, mounted, now>>
    /\ UNCHANGED trackingFor
    /\ Rerender

\* variant of loadTrackingResolved: the envelope's status is not looked at
loadTrackingResolved_anyStatus(c, env) ==
    /\ c \in InFlight
    /\ c.svc = "trackOrder"
    /\ env \in ServedEnvelopes
    /\ tracking' = IF env.hasHistory THEN env.history ELSE <<>>
    /\ trackingFor' = c.arg
    /\ calls' = Settle(c)
    /\ ev' = Event("trackResolved", NoOrder, env)
    /\ UNCHANGED <<orderId, order, loading, error, ratingModalOpen, ratingProductId,
                   isSubmittingReview, mounted, now>>
    /\ Rerender

\* if (response.status === "success") setTracking(response.data.history || [])
loadTrackingResolved(c, env) ==
    /\ c \in InFlight
    /\ c.svc = "trackOrder"
    /\ env \in ServedEnvelopes
    /\ tracking' = IF env.status = "success"
                   THEN (IF env.hasHistory THEN env.history ELSE <<>>)
                   ELSE tracking
    /\ trackingFor' = IF env.status = "success" THEN c.arg ELSE trackingFor
    /\ calls' = Settle(c)
    /\ ev' = Event("trackResolved", NoOrder, env)
    /\ UNCHANGED <<orderId, order, loading, error, ratingModalOpen, ratingProductId,
                   isSubmittingReview, mounted, now>>
    /\ Rerender

\* catch: console.error only
loadTrackingRejected(c) ==
    /\ c \in InFlight
    /\ c.svc = "trackOrder"
    /\ calls' = Settle(c)
    /\ ev' = Event("trackRejected", NoOrder, NoEnvelope)
    /\ UNCHANGED <<orderId, order, tracking, loading, error, ratingModalOpen,
                   ratingProductId, isSubmittingReview, mounted, now>>
    /\ UNCHANGED trackingFor
    /\ Rerender

----------------------------------------------------------------------------
(* Reviews: handleRateProduct, lines 89-92; submitReview, lines 94-105 *)

\* the Rate this product button, lines 254-263
handleRateProduct(p) ==
    /\ view.screen = "detail"
    /\ view.rateOffered
    /\ ratingProductId' = p
    /\ ratingModalOpen' = TRUE
    /\ ev' = Event("rate", NoOrder, NoEnvelope)
    /\ UNCHANGED <<orderId, order, tracking, loading, error, isSubmittingReview,
                   mounted, calls, now>>
    /\ UNCHANGED trackingFor
    /\ Rerender

\* ReviewModal onClose, line 395
CloseReviewModal ==
    /\ view.screen = "detail"
    /\ ratingModalOpen
    /\ ratingModalOpen' = FALSE
    /\ ev' = Event("closeModal", NoOrder, NoEnvelope)
    /\ UNCHANGED <<orderId, order, tracking, loading, error, ratingProductId,
                   isSubmittingReview, mounted, calls, now>>
    /\ UNCHANGED trackingFor
    /\ Rerender

\* if (!ratingProductId) return; setIsSubmittingReview(true); reviewService.createReview(...)
submitReview ==
    /\ view.screen = "detail"
    /\ ratingModalOpen
    /\ Room
    /\ IF ratingProductId = NoId
       THEN UNCHANGED <<isSubmittingReview, calls>>
       ELSE /\ isSubmittingReview' = TRUE
            /\ calls' = Issue(Call("review", "createReview", ratingProductId, NoId))
    /\ ev' = Event("submitReview", NoOrder, NoEnvelope)
    /\ UNCHANGED <<orderId, order, tracking, loading, error, ratingModalOpen,
                   ratingProductId, mounted, now>>
    /\ UNCHANGED trackingFor
    /\ Rerender

\* variant of submitReviewResolved: a successful review also calls loadOrder
submitReviewResolved_reloads(c) ==
    /\ c \in InFlight
    /\ c.svc = "createReview"
    /\ ratingModalOpen' = FALSE
    /\ isSubmittingReview' = FALSE
    /\ loading' = TRUE
    /\ calls' = Settle(c) (+) SetToBag({Call("loadOrder", "getOrder", orderId, NoId)})
    /\ ev' = Event("reviewOk", NoOrder, NoEnvelope)
    /\ UNCHANGED <<orderId, order, tracking, error, ratingProductId, mounted, now>>
    /\ UNCHANGED trackingFor
    /\ Rerender

\* createReview resolved: setRatingModalOpen(false); finally: setIsSubmittingReview(false)
submitReviewResolved(c) ==
    /\ c \in InFlight
    /\ c.svc = "createReview"
    /\ ratingModalOpen' = FALSE
    /\ isSubmittingReview' = FALSE
    /\ calls' = Settle(c)
    /\ ev' = Event("reviewOk", NoOrder, NoEnvelope)
    /\ UNCHANGED <<orderId, order, tracking, loading, error, ratingProductId, mounted, now>>
    /\ UNCHANGED trackingFor
    /\ Rerender

\* variant of submitReviewRejected: the modal is closed after a failure too
submitReviewRejected_closes(c) ==
    /\ c \in InFlight
    /\ c.svc = "createReview"
    /\ ratingModalOpen' = FALSE
    /\ isSubmittingReview' = FALSE
    /\ calls' = Settle(c)
    /\ ev' = Event("reviewFail", NoOrder, NoEnvelope)
    /\ UNCHANGED <<orderId, order, tracking, loading, error, ratingProductId, mounted, now>>
    /\ UNCHANGED trackingFor
    /\ Rerender

\* createReview rejected: console.error; finally: setIsSubmittingReview(false)
submitReviewRejected(c) ==
    /\ c \in InFlight
    /\ c.svc = "createReview"
    /\ isSubmittingReview' = FALSE
    /\ calls' = Settle(c)
    /\ ev' = Event("reviewFail", NoOrder, NoEnvelope)
    /\ UNCHANGED <<orderId, order, tracking, loading, error, ratingModalOpen,
                   ratingProductId, mounted, now>>
    /\ UNCHANGED trackingFor
    /\ Rerender

----------------------------------------------------------------------------
(* The page from mount on *)

Next ==
    \/ MountEffect
    \/ \E id \in OrderIds : RouteChange(id)
    \/ \E c \in InFlight : \E o \in ServedOrders(c.arg) : LoadOrderOk(c, o)
    \/ \E c \in InFlight : LoadOrderFail(c)
    \/ ClickCancelOrder
    \/ \E c \in InFlight : CancelOk(c)
    \/ \E c \in InFlight : CancelFail(c)
    \/ \E c \in InFlight : \E o \in ServedOrders(c.arg) : ReloadOk(c, o)
    \/ \E c \in InFlight : ReloadFail(c)
    \/ handleTrackOrder
    \/ \E c \in InFlight : \E env \in ServedEnvelopes : loadTrackingResolved(c, env)
    \/ \E c \in InFlight : loadTrackingRejected(c)
    \/ \E p \in ProductIds : handleRateProduct(p)
    \/ CloseReviewModal
    \/ submitReview
    \/ \E c \in InFlight : submitReviewResolved(c)
    \/ \E c \in InFlight : submitReviewRejected(c)

Spec == Init /\ [][Next]_vars

----------------------------------------------------------------------------
(* Loading over time, with the review modal left closed.  The handlers that *)
(* write the loading flag, the order or the error message are the effect's  *)
(* loadOrder and handleCancelOrder; the review handlers write none of the   *)
(* three.  Every getOrder and cancelOrder call eventually settles, and      *)
(* React runs the mount effect.                                             *)

GetOrderSettles ==
    \/ \E c \in InFlight : \E o \in ServedOrders(c.arg) : LoadOrderOk(c, o)
    \/ \E c \in InFlight : LoadOrderFail(c)
    \/ \E c \in InFlight : \E o \in ServedOrders(c.arg) : ReloadOk(c, o)
    \/ \E c \in InFlight : ReloadFail(c)

CancelOrderSettles ==
    \/ \E c \in InFlight : CancelOk(c)
    \/ \E c \in InFlight : CancelFail(c)

NextLoad ==
    \/ MountEffect
    \/ \E id \in OrderIds : RouteChange(id)
    \/ ClickCancelOrder
    \/ GetOrderSettles
    \/ CancelOrderSettles
    \/ handleTrackOrder
    \/ \E c \in InFlight : \E env \in ServedEnvelopes : loadTrackingResolved(c, env)
    \/ \E c \in InFlight : loadTrackingRejected(c)

SpecFair ==
    /\ Init /\ [][NextLoad]_vars
    /\ WF_vars(MountEffect)
    /\ WF_vars(GetOrderSettles)
    /\ WF_vars(CancelOrderSettles)

----------------------------------------------------------------------------
(* The rendered detail view over time: a loaded order and tracking list,   *)
(* the clock advancing between renders                                     *)

LoadedOrders ==
    [id : {"o1"}, status : Statuses, paymentStatus : PaymentStatuses,
     deliveredAt : DeliveredInstants \cup {NoTime}]

InitRender ==
    /\ orderId = "o1"
    /\ order \in LoadedOrders
    /\ tracking \in SeqsUpTo(TrackItems, MaxTrack)
    /\ loading = FALSE
    /\ error = ""
    /\ ratingModalOpen = FALSE
    /\ ratingProductId = NoId
    /\ isSubmittingReview = FALSE
    /\ mounted = TRUE
    /\ calls = EmptyBag
    /\ now \in NowInstants
    /\ view = Render(order, tracking, FALSE, "", now)
    /\ trackingFor = "o1"
    /\ ev = Event("init", NoOrder, NoEnvelope)

\* time passes; nothing re-renders until some state changes
Tick(t) ==
    /\ t > now
    /\ now' = t
    /\ ev' = Event("tick", NoOrder, NoEnvelope)
    /\ UNCHANGED <<orderId, order, tracking, loading, error, ratingModalOpen,
                   ratingProductId, isSubmittingReview, mounted, calls, view,
                   trackingFor>>

NextRender ==
    \/ \E t \in NowInstants : Tick(t)
    \/ \E p \in ProductIds : handleRateProduct(p)
    \/ CloseReviewModal

SpecRender == InitRender /\ [][NextRender]_vars

----------------------------------------------------------------------------
(* Properties *)

\* C1: whenever loadOrder's getOrder call fails (loadOrder started by the effect or
\* awaited by handleCancelOrder), neither the start of loadOrder nor its failure
\* writes the order, the failure sets the error message to "Failed to load order
\* details", and the loading flag is false when the call has settled.
C1_LoadOrderFailure ==
    [][/\ ev'.op \in {"mount", "route", "loadOrderFail", "reloadFail"} => order' = order
       /\ ev'.op \in {"loadOrderFail", "reloadFail"} =>
            /\ error' = "Failed to load order details"
            /\ loading' = FALSE]_vars

\* a getOrder failure arriving while an order is loaded
C1_Witness ==
    /\ ev.op = "loadOrderFail"
    /\ order # NoOrder
    /\ error = "Failed to load order details"
    /\ ~loading

\* C2: when the cancelOrder service call throws, the error message becomes "Failed
\* to cancel order", the order is left as it was, no getOrder request is issued and
\* the loading flag ends false.
C2_CancelFailure ==
    [][ev'.op = "cancelFail" =>
         /\ error' = "Failed to cancel order"
         /\ order' = order
         /\ Pending("getOrder")' = Pending("getOrder")
         /\ loading' = FALSE]_vars

C2_Witness ==
    /\ ev.op = "cancelFail"
    /\ order.status = "PENDING"
    /\ error = "Failed to cancel order"
    /\ Pending("getOrder") = 0
    /\ ~loading

\* C3: in a handleCancelOrder chain the reload's getOrder request appears only in the
\* step in which cancelOrder settled without throwing, that step issues exactly one
\* getOrder request, and when the reload's getOrder succeeds the order becomes the
\* order the service returned.
C3_CancelThenReload ==
    [][/\ PendingIn("cancel", "getOrder")' > PendingIn("cancel", "getOrder")
            => ev'.op = "cancelOk"
       /\ ev'.op = "cancelOk" =>
            /\ Pending("getOrder")' = Pending("getOrder") + 1
            /\ PendingIn("cancel", "getOrder")' = PendingIn("cancel", "getOrder") + 1
            /\ PendingIn("cancel", "cancelOrder")' = PendingIn("cancel", "cancelOrder") - 1
       /\ ev'.op = "reloadOk" =>
            /\ order' = ev'.order
            /\ PendingIn("cancel", "getOrder")' = PendingIn("cancel", "getOrder") - 1]_vars

\* the reload after a successful cancel shows the order as CANCELLED
C3_Witness ==
    /\ ev.op = "reloadOk"
    /\ order.status = "CANCELLED"
    /\ view.screen = "detail"
    /\ ~view.cancelOffered

\* C4: once the mount effect has run for an order identifier, a getOrder request and
\* a trackOrder request for that identifier are in flight, before any user action.
C4_MountLoadsOrderAndTracking ==
    ev.op = "mount" =>
        /\ \E c \in InFlight : c.svc = "getOrder" /\ c.arg = orderId
        /\ \E c \in InFlight : c.svc = "trackOrder" /\ c.arg = orderId

\* C5 as stated: a submitReview whose createReview call succeeds issues a getOrder
\* request that reloads the order.
C5_ReviewReloadsOrder ==
    [][ev'.op = "reviewOk" => Pending("getOrder")' = Pending("getOrder") + 1]_vars

\* C5 as amended: a submitReview whose createReview call succeeds issues no getOrder
\* request and leaves the order and the loading flag as they were; only a successful
\* cancellation issues a reload.
C5_ReviewDoesNotReload ==
    [][/\ ev'.op = "reviewOk" =>
            /\ Pending("getOrder")' = Pending("getOrder")
            /\ order' = order
            /\ loading' = loading
       /\ ev'.op = "cancelOk" => Pending("getOrder")' = Pending("getOrder") + 1]_vars

C5_Witness ==
    /\ ev.op = "reviewOk"
    /\ order.status = "DELIVERED"
    /\ Pending("getOrder") = 0

\* C6: loadTracking, started by handleTrackOrder, changes the tracking list only when
\* trackOrder returns an envelope whose status is "success"; when the call throws or
\* returns another status the list is unchanged; the order, the error message and
\* the loading flag are never changed by it.
C6_LoadTrackingFrame ==
    [][ev'.op \in {"clickTrack", "trackResolved", "trackRejected"} =>
         /\ order' = order
         /\ error' = error
         /\ loading' = loading
         /\ tracking' # tracking => ev'.op = "trackResolved" /\ ev'.env.status = "success"
         /\ ev'.op = "trackResolved" /\ ev'.env.status = "success" =>
              tracking' = IF ev'.env.hasHistory THEN ev'.env.history ELSE <<>>
         /\ ev'.op = "trackRejected" \/ ev'.op = "clickTrack" => tracking' = tracking
         /\ ev'.op = "trackResolved" /\ ev'.env.status # "success" => tracking' = tracking]_vars

\* a non-success envelope carrying a history that was not taken over
C6_Witness ==
    /\ ev.op = "trackResolved"
    /\ ev.env.status # "success"
    /\ ev.env.history # <<>>
    /\ tracking = <<>>

\* floor(x / Day), stated by its defining inequalities
FloorDays(x) == CHOOSE q \in -40..40 : q * Day <= x /\ x < (q + 1) * Day

\* C7: in the rendered detail view, when a delivered instant d is resolved the
\* return-eligibility flag is true iff floor((today - d) / one day) <= 30, d later
\* than today included; the flag is false when no delivered instant is resolved.
C7_ReturnEligibility ==
    view.screen = "detail" =>
        IF view.deliveredAt # NoTime
        THEN view.isReturnEligible <=> (FloorDays(view.today - view.deliveredAt) <= 30)
        ELSE ~view.isReturnEligible

\* delivered one second less than 31 days ago: 30 floored days, still eligible
C7_Witness ==
    /\ ev.op = "rate"
    /\ view.screen = "detail"
    /\ view.deliveredAt # NoTime
    /\ view.today - view.deliveredAt = 31 * Day - 1
    /\ view.isReturnEligible

IsDelivered(item) == item.status = "DELIVERED"
DeliveredEntries(t) == SelectSeq(t, IsDelivered)

\* C8: the delivered date is order.deliveredAt when present; otherwise the timestamp
\* of the first DELIVERED entry in the tracking list's stored order; otherwise null,
\* with eligibility false.
C8_DeliveredDateResolution ==
    view.screen = "detail" =>
        IF order.deliveredAt # NoTime
        THEN view.deliveredAt = order.deliveredAt
        ELSE IF DeliveredEntries(tracking) # <<>>
        THEN view.deliveredAt = Head(DeliveredEntries(tracking)).createdAt
        ELSE view.deliveredAt = NoTime /\ ~view.isReturnEligible

\* the list is not chronological: a later DELIVERED entry is stored before an earlier one
C8_Witness ==
    /\ ev.op = "rate"
    /\ view.screen = "detail"
    /\ order.deliveredAt = NoTime
    /\ Len(DeliveredEntries(tracking)) = 2
    /\ DeliveredEntries(tracking)[1].createdAt > DeliveredEntries(tracking)[2].createdAt
    /\ view.deliveredAt = DeliveredEntries(tracking)[1].createdAt

\* the tracking list is ordered by occurrence
Chronological(t) == \A i, j \in 1..Len(t) : i < j => t[i].createdAt <= t[j].createdAt
DeliveredInstantsOf(t) == {t[i].createdAt : i \in {j \in 1..Len(t) : t[j].status = "DELIVERED"}}

\* C9 as stated: with no order.deliveredAt and a chronological tracking list holding
\* DELIVERED entries, the delivery date is the timestamp of the latest DELIVERED entry.
C9_MostRecentDelivered ==
    /\ view.screen = "detail"
    /\ order.deliveredAt = NoTime
    /\ Chronological(tracking)
    /\ DeliveredInstantsOf(tracking) # {}
    => \A d \in DeliveredInstantsOf(tracking) : d <= view.deliveredAt

\* C9 as amended: under the same conditions the delivery date is the timestamp of
\* the earliest DELIVERED entry.
C9_EarliestDelivered ==
    /\ view.screen = "detail"
    /\ order.deliveredAt = NoTime
    /\ Chronological(tracking)
    /\ DeliveredInstantsOf(tracking) # {}
    => /\ view.deliveredAt \in DeliveredInstantsOf(tracking)
       /\ \A d \in DeliveredInstantsOf(tracking) : view.deliveredAt <= d

C9_Witness ==
    /\ ev.op = "rate"
    /\ view.screen = "detail"
    /\ order.deliveredAt = NoTime
    /\ Chronological(tracking)
    /\ Cardinality(DeliveredInstantsOf(tracking)) = 2
    /\ \A d \in DeliveredInstantsOf(tracking) : view.deliveredAt <= d

\* C10: after a cancel failure the order detail view is still rendered, with the
\* previously loaded order, together with the message.
C10_CancelErrorInline ==
    ev.op = "cancelFail" => view.screen = "detail" /\ order # NoOrder

\* the terminal states of the view: loaded, or error
Loaded == ~loading /\ order # NoOrder /\ error = ""
Failed == ~loading /\ error # ""

\* C11: the view starts in the loading state and, every service call settling
\* eventually, whenever the loading flag is set a state with the loading flag false
\* follows, which is loaded (order present, no error) or error.
C11_LoadingEnds ==
    /\ (loading = TRUE /\ view.screen = "loading")
    /\ [](loading => <>(Loaded \/ Failed))
    /\ [](~loading => Loaded \/ Failed)

\* the first getOrder succeeded: loaded
C11_Witness ==
    /\ ev.op = "loadOrderOk"
    /\ Loaded
    /\ view.screen = "detail"
    /\ calls = EmptyBag

\* the React state of the component
state == <<order, tracking, loading, error, ratingModalOpen, ratingProductId,
           isSubmittingReview>>

\* C12: submitReview with a product selected sets the submitting flag in the step
\* that issues createReview; the flag is cleared when that call settles, either way;
\* on success the review modal is closed; on failure the modal and the error message
\* are left as they were; with no product selected submitReview issues no call and
\* changes no state.
C12_SubmitReview ==
    [][/\ ev'.op = "submitReview" /\ ratingProductId # NoId =>
            /\ isSubmittingReview'
            /\ PendingIn("review", "createReview")' = PendingIn("review", "createReview") + 1
       /\ ev'.op = "submitReview" /\ ratingProductId = NoId =>
            /\ state' = state
            /\ calls' = calls
       /\ PendingIn("review", "createReview")' > PendingIn("review", "createReview") =>
            ev'.op = "submitReview" /\ isSubmittingReview'
       /\ ev'.op = "reviewOk" => ~isSubmittingReview' /\ ~ratingModalOpen'
       /\ ev'.op = "reviewFail" =>
            /\ ~isSubmittingReview'
            /\ ratingModalOpen' = ratingModalOpen
            /\ error' = error]_vars

\* a failed submission: the modal is still open and the flag is cleared
C12_Witness ==
    /\ ev.op = "reviewFail"
    /\ ratingModalOpen
    /\ ~isSubmittingReview
    /\ error = ""
    /\ view.screen = "detail"

\* C13: a cancelOrder request is issued only by handleCancelOrder, clicked in the
\* detail view of a loaded order whose status is PENDING, and for that order's id; in
\* a state with no order loaded nothing invokes handleCancelOrder or issues
\* cancelOrder; the rendered view offers the cancel action only in the detail view
\* of a PENDING order, never in the loading or the error view.
C13_CancelOnlyPending ==
    [][/\ Pending("cancelOrder")' > Pending("cancelOrder") \/ ev'.op = "clickCancel" =>
            /\ ev'.op = "clickCancel"
            /\ order # NoOrder /\ order.status = "PENDING"
            /\ view.screen = "detail"
            /\ Pending("cancelOrder")' = Pending("cancelOrder") + 1
            /\ \E c \in BagToSet(calls') : c.svc = "cancelOrder" /\ c.arg = order.id
       /\ order = NoOrder => Pending("cancelOrder")' <= Pending("cancelOrder")
       /\ view'.cancelOffered =>
            /\ view'.screen = "detail"
            /\ ~loading' /\ error' = ""
            /\ order' # NoOrder /\ order'.status = "PENDING"]_vars

\* the cancel request of a PENDING order is in flight
C13_Witness ==
    /\ ev.op = "clickCancel"
    /\ order.status = "PENDING"
    /\ Pending("cancelOrder") = 1
    /\ loading
    /\ ~view.cancelOffered

OrderBadge(status, variant) == view.statusVariant = variant <=> order.status \in status
PaymentBadge(status, variant) == view.paymentVariant = variant <=> order.paymentStatus \in status

\* C14: in the detail view the order badge is outline exactly for PENDING, secondary
\* exactly for CONFIRMED and PROCESSING, default exactly for SHIPPED and DELIVERED and
\* destructive exactly for every other status; the payment badge is default exactly
\* for PAID, outline exactly for PENDING and destructive exactly for every other value.
C14_BadgeVariants ==
    view.screen = "detail" =>
        /\ OrderBadge({"PENDING"}, "outline")
        /\ OrderBadge({"CONFIRMED", "PROCESSING"}, "secondary")
        /\ OrderBadge({"SHIPPED", "DELIVERED"}, "default")
        /\ OrderBadge(Statuses \ {"PENDING", "CONFIRMED", "PROCESSING", "SHIPPED", "DELIVERED"},
                      "destructive")
        /\ PaymentBadge({"PAID"}, "default")
        /\ PaymentBadge({"PENDING"}, "outline")
        /\ PaymentBadge(PaymentStatuses \ {"PAID", "PENDING"}, "destructive")

\* a status and a payment status outside the enumerated ones
C14_Witness ==
    /\ view.screen = "detail"
    /\ order.status = "REFUNDED" /\ view.statusVariant = "destructive"
    /\ order.paymentStatus = "FAILED" /\ view.paymentVariant = "destructive"

\* a getOrder response was stored, by loadOrder on its own or awaited by handleCancelOrder
GotOrder(e) == e.op \in {"loadOrderOk", "reloadOk"}

\* C15: order fetches overlap unfenced: every getOrder response that arrives is
\* stored as the order, whatever identifier it was requested for and whatever else is
\* in flight, and nothing else writes the order; so the order is always the response
\* of the getOrder that succeeded last, whenever it was issued.
C15_LastWriteWins ==
    [][/\ GotOrder(ev') => order' = ev'.order
       /\ order' # order => GotOrder(ev')]_vars

\* two loadOrder fetches overlapped and the one issued first settled last: all calls
\* have settled and the order is the one of the previous route identifier
C15_Witness ==
    /\ ev.op = "loadOrderOk"
    /\ calls = EmptyBag
    /\ order = ev.order
    /\ order.id # orderId

\* C16: once the error message is non-empty no step empties it, and whenever it is
\* non-empty and loading has ended the error screen is rendered, not the order
\* details, also after a later getOrder has succeeded and stored an order.
C16_ErrorSticks ==
    [][/\ error # "" => error' # ""
       /\ error' # "" /\ ~loading' => view'.screen = "error" /\ view'.message = error']_vars

\* a load succeeded after an earlier failure: the order is stored, the error screen stays
C16_Witness ==
    /\ ev.op = "loadOrderOk"
    /\ order # NoOrder /\ order.id = orderId
    /\ error # ""
    /\ ~loading
    /\ view.screen = "error"

\* C17: whenever the order details are displayed, the order and the tracking list
\* shown are those fetched for the route's current order identifier.
C17_ShownForCurrentId ==
    view.screen = "detail" =>
        /\ order.id = orderId
        /\ tracking # <<>> => trackingFor = orderId

====
